---- MODULE Spec2Model ----
(***************************************************************************)
(* Model of python-plots/plot.py: the chromatogram script that loads a     *)
(* two-column CSV, windows it to [PEAK_START_TIME, PEAK_END_TIME], takes   *)
(* the minimum in-window signal as baseline, subtracts it, integrates the  *)
(* corrected window with the trapezoidal rule, prints both numbers and     *)
(* plots the full series.                                                  *)
(*                                                                         *)
(* Numbers.  The script works on Python floats.  The model works on        *)
(* integers and only draws inputs on which every float operation of the    *)
(* script is exact: a CSV field is a decimal literal n/d, times are chosen *)
(* so that float(field) * 60 is a whole number of seconds that is a        *)
(* multiple of 30, so that the halving inside trapz is exact as well.      *)
(* math.inf and the not-yet-bound name `result` are explicit values.       *)
(***************************************************************************)
EXTENDS Integers, Sequences, FiniteSets, TLC

\* ------------------------------------------------------------------ bounds
\* Largest number of rows in the input file.
MaxRows == 3

\* ------------------------------------------------------------ float values
None == [kind |-> "none", v |-> 0]
Inf == [kind |-> "inf", v |-> 0]
Num(v) == [kind |-> "num", v |-> v]

\* ------------------------------------------------------------- CSV fields
\* A field is the text of one CSV cell: a decimal literal n/d, or text that
\* float() rejects.
Field(n, d) == [ok |-> TRUE, n |-> n, d |-> d]
BadField == [ok |-> FALSE, n |-> 0, d |-> 1]

\* Time cells, in minutes: 0, 2.5, 3, 5, 6 (0 s, 150 s, 180 s, 300 s, 360 s).
TimeFields == {Field(0, 1), Field(5, 2), Field(3, 1), Field(5, 1), Field(6, 1)}
\* Signal cells.
SignalFields == {Field(5, 1), Field(8, 1), Field(10, 1)}

ValidRows == {<<t, s>> : t \in TimeFields, s \in SignalFields}
\* A blank line, a row with one cell, a non-numeric first cell, a non-numeric
\* second cell.
MalformedRows ==
    {<<>>, <<Field(3, 1)>>, <<BadField, Field(8, 1)>>, <<Field(3, 1), BadField>>}
Rows == ValidRows \cup MalformedRows

RECURSIVE SeqsUpTo(_, _)
SeqsUpTo(S, n) ==
    IF n = 0 THEN {<<>>}
    ELSE LET shorter == SeqsUpTo(S, n - 1)
         IN  shorter \cup {Append(q, e) : q \in {p \in shorter : Len(p) = n - 1}, e \in S}

Files == SeqsUpTo(Rows, MaxRows)

\* The window constants as written in the script, and the edit of the two
\* constants that the documented fixture uses.
Windows == {<<150, 300>>, <<0, 360>>}

VARIABLES
    PEAK_START_TIME, PEAK_END_TIME, \* the two window constants
    rows,          \* content of raw-data-a.csv, one sequence of cells per line
    fileExists,    \* whether raw-data-a.csv can be opened
    csvfile,       \* "unopened", "open" or "closed"
    nread,         \* rows the csv reader has handed out
    x_vals, y_vals,
    peak_x_vals, peak_y_vals,
    baseline,
    i,
    result,
    stdout,        \* lines printed so far
    plotted,       \* what ax.plot received, <<>> before the call
    error,         \* the uncaught exception, "" if none
    pc

vars == <<PEAK_START_TIME, PEAK_END_TIME, rows, fileExists, csvfile, nread,
          x_vals, y_vals, peak_x_vals, peak_y_vals, baseline, i, result,
          stdout, plotted, error, pc>>

config == <<PEAK_START_TIME, PEAK_END_TIME, rows, fileExists>>

\* ------------------------------------------------------- pure operations
\* s[k] of a Python list, which counts from 0.
At(s, k) == s[k + 1]

\* float(f) * k, on inputs where it is exact.
FloatTimes(f, k) == (f.n * k) \div f.d

\* Variant: both tests of line 44 written with <= and >=.
InWindowExclusive(t, lo, hi) == ~(t <= lo \/ t >= hi)

\* Line 44, negated: the sample is kept.
InWindow(t, lo, hi) == ~(t < lo \/ t > hi)

\* Lines 51-52: baseline > SIGNAL, with baseline possibly math.inf.
NewBaseline(b, s) ==
    IF b.kind = "inf" \/ b.v > s THEN Num(s) ELSE b

\* Variant: the first windowed signal taken for the baseline.
CorrectedByFirst(ys, b) == [k \in 1..Len(ys) |-> ys[k] - ys[1]]

\* Line 59: [y_val - baseline for y_val in peak_y_vals].
Corrected(ys, b) == [k \in 1..Len(ys) |-> ys[k] - b.v]

\* Variant: left rectangle rule, d * y[:-1].
RECURSIVE RectangleFrom(_, _, _)
RectangleFrom(y, x, k) ==
    IF k >= Len(y) THEN 0
    ELSE (x[k + 1] - x[k]) * y[k] + RectangleFrom(y, x, k + 1)

trapzRectangle(y, x) == RectangleFrom(y, x, 1)

\* Variant: the differences taken backwards, x[:-1] - x[1:].
RECURSIVE BackwardFrom(_, _, _)
BackwardFrom(y, x, k) ==
    IF k >= Len(y) THEN 0
    ELSE ((x[k] - x[k + 1]) * (y[k + 1] + y[k])) \div 2 + BackwardFrom(y, x, k + 1)

trapzBackward(y, x) == BackwardFrom(y, x, 1)

\* integrate.trapz(y, x=x): d = diff(x); sum(d * (y[1:] + y[:-1]) / 2.0);
\* the sum over no terms is 0.
RECURSIVE TrapzFrom(_, _, _)
TrapzFrom(y, x, k) ==
    IF k >= Len(y) THEN 0
    ELSE ((x[k + 1] - x[k]) * (y[k + 1] + y[k])) \div 2 + TrapzFrom(y, x, k + 1)

trapz(y, x) == TrapzFrom(y, x, 1)

\* ------------------------------------------------------------------ Init
Init ==
    /\ \E w \in Windows : PEAK_START_TIME = w[1] /\ PEAK_END_TIME = w[2]
    /\ rows \in Files
    /\ fileExists \in BOOLEAN
    /\ csvfile = "unopened"
    /\ nread = 0
    /\ x_vals = <<>>
    /\ y_vals = <<>>
    /\ peak_x_vals = <<>>
    /\ peak_y_vals = <<>>
    /\ baseline = Inf
    /\ i = -1
    /\ result = None
    /\ stdout = <<>>
    /\ plotted = <<>>
    /\ error = ""
    /\ pc = "open"

\* --------------------------------------------------------------- actions
\* Line 28: open('raw-data-a.csv').
Open ==
    /\ pc = "open"
    /\ fileExists
    /\ csvfile' = "open"
    /\ pc' = "read"
    /\ UNCHANGED <<config, nread, x_vals, y_vals, peak_x_vals, peak_y_vals,
                   baseline, i, result, stdout, plotted, error>>

\* Line 28 when the file is missing: FileNotFoundError, nothing was opened.
OpenFail ==
    /\ pc = "open"
    /\ ~fileExists
    /\ error' = "FileNotFoundError"
    /\ pc' = "failed"
    /\ UNCHANGED <<config, csvfile, nread, x_vals, y_vals, peak_x_vals,
                   peak_y_vals, baseline, i, result, stdout, plotted>>

\* The exception lines 33-34 raise on a row, "" if they raise none:
\* row[0] is evaluated, then float(), then row[1], then float().
RowError(row) ==
    IF Len(row) < 1 THEN "IndexError"
    ELSE IF ~row[1].ok THEN "ValueError"
    ELSE IF Len(row) < 2 THEN "IndexError"
    ELSE IF ~row[2].ok THEN "ValueError"
    ELSE ""

\* Lines 31-37, one iteration on a well-formed row.
ReadRow ==
    /\ pc = "read"
    /\ nread < Len(rows)
    /\ LET row == rows[nread + 1] IN
        /\ RowError(row) = ""
        /\ x_vals' = Append(x_vals, FloatTimes(row[1], 60))
        /\ y_vals' = Append(y_vals, FloatTimes(row[2], 1))
    /\ nread' = nread + 1
    /\ UNCHANGED <<config, csvfile, peak_x_vals, peak_y_vals, baseline, i,
                   result, stdout, plotted, error, pc>>

\* Variant: a malformed row is skipped and the loop goes on.
ReadRowSkip ==
    /\ pc = "read"
    /\ nread < Len(rows)
    /\ RowError(rows[nread + 1]) # ""
    /\ nread' = nread + 1
    /\ UNCHANGED <<config, csvfile, x_vals, y_vals, peak_x_vals, peak_y_vals,
                   baseline, i, result, stdout, plotted, error, pc>>

\* Variant: the file opened without a with block, so that the exception
\* leaves it open.
ReadRowFailLeak ==
    /\ pc = "read"
    /\ nread < Len(rows)
    /\ RowError(rows[nread + 1]) # ""
    /\ nread' = nread + 1
    /\ error' = RowError(rows[nread + 1])
    /\ pc' = "failed"
    /\ UNCHANGED <<config, csvfile, x_vals, y_vals, peak_x_vals, peak_y_vals,
                   baseline, i, result, stdout, plotted>>

\* Lines 31-34 on a malformed row: the exception leaves the with block, which
\* closes the file, and ends the script.
ReadRowFail ==
    /\ pc = "read"
    /\ nread < Len(rows)
    /\ RowError(rows[nread + 1]) # ""
    /\ nread' = nread + 1
    /\ error' = RowError(rows[nread + 1])
    /\ csvfile' = "closed"
    /\ pc' = "failed"
    /\ UNCHANGED <<config, x_vals, y_vals, peak_x_vals, peak_y_vals, baseline,
                   i, result, stdout, plotted>>

\* Line 31 when the reader is exhausted: the with block closes the file;
\* line 40 sets i.
ReadEnd ==
    /\ pc = "read"
    /\ nread = Len(rows)
    /\ csvfile' = "closed"
    /\ i' = -1
    /\ pc' = "window"
    /\ UNCHANGED <<config, nread, x_vals, y_vals, peak_x_vals, peak_y_vals,
                   baseline, result, stdout, plotted, error>>

\* Variant: lines 49-52 placed above the test of line 44, so that every
\* sample reaches the baseline.
WindowStepBaselineFirst ==
    /\ pc = "window"
    /\ i + 1 < Len(y_vals)
    /\ i' = i + 1
    /\ baseline' = NewBaseline(baseline, At(y_vals, i'))
    /\ IF InWindow(At(x_vals, i'), PEAK_START_TIME, PEAK_END_TIME)
       THEN /\ peak_x_vals' = Append(peak_x_vals, At(x_vals, i'))
            /\ peak_y_vals' = Append(peak_y_vals, At(y_vals, i'))
       ELSE UNCHANGED <<peak_x_vals, peak_y_vals>>
    /\ UNCHANGED <<config, csvfile, nread, x_vals, y_vals, result, stdout,
                   plotted, error, pc>>

\* Lines 41-54, one iteration.
WindowStep ==
    /\ pc = "window"
    /\ i + 1 < Len(y_vals)
    /\ i' = i + 1
    /\ IF InWindow(At(x_vals, i'), PEAK_START_TIME, PEAK_END_TIME)
       THEN /\ peak_x_vals' = Append(peak_x_vals, At(x_vals, i'))
            /\ baseline' = NewBaseline(baseline, At(y_vals, i'))
            /\ peak_y_vals' = Append(peak_y_vals, At(y_vals, i'))
       ELSE UNCHANGED <<peak_x_vals, baseline, peak_y_vals>>
    /\ UNCHANGED <<config, csvfile, nread, x_vals, y_vals, result, stdout,
                   plotted, error, pc>>

\* Variant: line 56 reached by leaving the loop early.
PrintBaselineEarly ==
    /\ pc = "window"
    /\ stdout' = Append(stdout, [label |-> "Baseline is", value |-> baseline])
    /\ pc' = "correct"
    /\ UNCHANGED <<config, csvfile, nread, x_vals, y_vals, peak_x_vals,
                   peak_y_vals, baseline, i, result, plotted, error>>

\* Line 56, reached when the loop of line 41 is exhausted.
PrintBaseline ==
    /\ pc = "window"
    /\ i + 1 >= Len(y_vals)
    /\ stdout' = Append(stdout, [label |-> "Baseline is", value |-> baseline])
    /\ pc' = "correct"
    /\ UNCHANGED <<config, csvfile, nread, x_vals, y_vals, peak_x_vals,
                   peak_y_vals, baseline, i, result, plotted, error>>

\* Line 59.
Correct ==
    /\ pc = "correct"
    /\ peak_y_vals' = Corrected(peak_y_vals, baseline)
    /\ pc' = "integrate"
    /\ UNCHANGED <<config, csvfile, nread, x_vals, y_vals, peak_x_vals,
                   baseline, i, result, stdout, plotted, error>>

\* Line 62.
Integrate ==
    /\ pc = "integrate"
    /\ result' = Num(trapz(peak_y_vals, peak_x_vals))
    /\ pc' = "print_area"
    /\ UNCHANGED <<config, csvfile, nread, x_vals, y_vals, peak_x_vals,
                   peak_y_vals, baseline, i, stdout, plotted, error>>

\* Line 63.
PrintArea ==
    /\ pc = "print_area"
    /\ stdout' = Append(stdout, [label |-> "Peak area:", value |-> result])
    /\ pc' = "plot"
    /\ UNCHANGED <<config, csvfile, nread, x_vals, y_vals, peak_x_vals,
                   peak_y_vals, baseline, i, result, plotted, error>>

\* Variant: the windowed, corrected lists handed to ax.plot.
PlotPeak ==
    /\ pc = "plot"
    /\ plotted' = <<[x |-> peak_x_vals, y |-> peak_y_vals]>>
    /\ pc' = "done"
    /\ UNCHANGED <<config, csvfile, nread, x_vals, y_vals, peak_x_vals,
                   peak_y_vals, baseline, i, result, stdout, error>>

\* Lines 66-71.
Plot ==
    /\ pc = "plot"
    /\ plotted' = <<[x |-> x_vals, y |-> y_vals]>>
    /\ pc' = "done"
    /\ UNCHANGED <<config, csvfile, nread, x_vals, y_vals, peak_x_vals,
                   peak_y_vals, baseline, i, result, stdout, error>>

Next ==
    \/ Open
    \/ OpenFail
    \/ ReadRow
    \/ ReadRowFail
    \/ ReadEnd
    \/ WindowStep
    \/ PrintBaseline
    \/ Correct
    \/ Integrate
    \/ PrintArea
    \/ Plot

Spec == Init /\ [][Next]_vars

TypeOK ==
    /\ pc \in {"open", "read", "window", "correct", "integrate", "print_area",
               "plot", "done", "failed"}
    /\ csvfile \in {"unopened", "open", "closed"}
    /\ Len(x_vals) = Len(y_vals)
    /\ Len(peak_x_vals) = Len(peak_y_vals)

\* ------------------------------------------------ what the input file says
\* The definitions below read the input file directly; the properties compare
\* them with what the script computed.
WellFormed(row) == Len(row) >= 2 /\ row[1].ok /\ row[2].ok
Seconds(row) == (row[1].n * 60) \div row[1].d
Signal(row) == row[2].n \div row[2].d

AllWellFormed == \A k \in 1..Len(rows) : WellFormed(rows[k])
\* Position of the first malformed row, 0 if there is none.
FirstMalformed ==
    IF AllWellFormed THEN 0
    ELSE CHOOSE m \in 1..Len(rows) :
            /\ ~WellFormed(rows[m])
            /\ \A k \in 1..(m - 1) : WellFormed(rows[k])

InBounds(row) == PEAK_START_TIME <= Seconds(row) /\ Seconds(row) <= PEAK_END_TIME
\* The rows of a well-formed file that lie in the window, in file order.
InFile == SelectSeq(rows, InBounds)
TimesOf(rs) == [k \in 1..Len(rs) |-> Seconds(rs[k])]
SignalsOf(rs) == [k \in 1..Len(rs) |-> Signal(rs[k])]

\* Least signal of a non-empty sequence of rows.
MinSignal(rs) ==
    CHOOSE m \in {Signal(rs[k]) : k \in 1..Len(rs)} :
        \A k \in 1..Len(rs) : m <= Signal(rs[k])

\* Sum over k of (t[k+1] - t[k]) * (y[k] + y[k+1]), y the signals less base.
RECURSIVE TwiceArea(_, _, _)
TwiceArea(rs, base, n) ==
    IF n < 2 THEN 0
    ELSE TwiceArea(rs, base, n - 1)
         + (Seconds(rs[n]) - Seconds(rs[n - 1]))
           * ((Signal(rs[n - 1]) - base) + (Signal(rs[n]) - base))

LoopExhausted == pc = "window" /\ i + 1 = Len(y_vals)
Loaded == fileExists /\ AllWellFormed
PastWindowing == pc \in {"correct", "integrate", "print_area", "plot", "done"}
PastCorrection == pc \in {"integrate", "print_area", "plot", "done"}

\* ---------------------------------------------------------------- claims
\* C1: when the windowing loop has run over the whole Series, the Peak Series
\* is exactly the rows of the file with PEAK_START_TIME <= time <=
\* PEAK_END_TIME, in file order, bounds included.
C1_WindowInclusiveOrdered ==
    /\ (LoopExhausted \/ PastWindowing) => peak_x_vals = TimesOf(InFile)
    /\ (LoopExhausted \/ pc = "correct") => peak_y_vals = SignalsOf(InFile)

\* A window holding a sample at each bound, with a sample left out.
C1_Witness ==
    /\ pc = "correct"
    /\ \E k \in 1..Len(peak_x_vals) : peak_x_vals[k] = PEAK_START_TIME
    /\ \E k \in 1..Len(peak_x_vals) : peak_x_vals[k] = PEAK_END_TIME
    /\ Len(peak_x_vals) < Len(x_vals)

\* C2: with a non-empty Peak Series, the value printed as 'Baseline is' is
\* the signal of some in-window sample and is <= every in-window signal,
\* whatever the samples outside the window hold.
C2_BaselineIsWindowMin ==
    (Len(stdout) >= 1 /\ InFile # <<>>) =>
        /\ stdout[1].label = "Baseline is"
        /\ stdout[1].value.kind = "num"
        /\ \E k \in 1..Len(InFile) : stdout[1].value.v = Signal(InFile[k])
        /\ \A k \in 1..Len(InFile) : stdout[1].value.v <= Signal(InFile[k])

\* The baseline is printed and a sample outside the window is below it.
C2_Witness ==
    /\ Len(stdout) >= 1
    /\ InFile # <<>>
    /\ stdout[1].value.kind = "num"
    /\ \E k \in 1..Len(rows) : ~InBounds(rows[k]) /\ Signal(rows[k]) < stdout[1].value.v

FixtureRows ==
    <<<<Field(0, 1), Field(5, 1)>>, <<Field(3, 1), Field(10, 1)>>,
      <<Field(6, 1), Field(8, 1)>>>>
IsFixture == rows = FixtureRows /\ PEAK_START_TIME = 0 /\ PEAK_END_TIME = 360

\* C3: with a non-empty Peak Series, twice the value printed as 'Peak area:'
\* is the sum of (t[k+1]-t[k]) * (y[k]+y[k+1]) over the in-window samples, t
\* in seconds and y the signal less the window minimum; the fixture
\* (0,5),(3,10),(6,8) with window [0,360] has corrected signals 0,5,3 and
\* area 1170.
C3_AreaIsTrapezoid ==
    /\ (Len(stdout) >= 2 /\ InFile # <<>>) =>
        /\ stdout[2].label = "Peak area:"
        /\ stdout[2].value.kind = "num"
        /\ 2 * stdout[2].value.v = TwiceArea(InFile, MinSignal(InFile), Len(InFile))
    /\ (IsFixture /\ PastCorrection) => peak_y_vals = <<0, 5, 3>>
    /\ (IsFixture /\ Len(stdout) >= 2) => stdout[2].value = Num(1170)

C3_Witness ==
    /\ IsFixture
    /\ Len(stdout) = 2
    /\ stdout[2].value = Num(1170)

\* C4: after the correction pass over a non-empty Peak Series every corrected
\* signal is >= 0 and one of them is 0, the corrected series is as long as the
\* Peak Series, each corrected signal is the in-window signal less the window
\* minimum, and peak_x_vals still holds the in-window times.
C4_CorrectedMinIsZero ==
    (PastCorrection /\ InFile # <<>>) =>
        /\ Len(peak_y_vals) = Len(InFile)
        /\ \A k \in 1..Len(peak_y_vals) : peak_y_vals[k] >= 0
        /\ \E k \in 1..Len(peak_y_vals) : peak_y_vals[k] = 0
        /\ \A k \in 1..Len(peak_y_vals) :
               peak_y_vals[k] = Signal(InFile[k]) - MinSignal(InFile)
        /\ peak_x_vals = TimesOf(InFile)

\* A corrected window of two or more samples, not all equal, whose first
\* sample is not the least.
C4_Witness ==
    /\ pc = "integrate"
    /\ Len(peak_y_vals) >= 2
    /\ peak_y_vals[1] > 0
    /\ \E k \in 1..Len(peak_y_vals) : peak_y_vals[k] = 0

EmptyWindow == Loaded /\ InFile = <<>>

\* C5: when every sample lies outside the window (an empty file included), the
\* run fails after windowing: it prints nothing and never reaches the plot.
C5_EmptyWindowFailsFast ==
    EmptyWindow =>
        /\ stdout = <<>>
        /\ plotted = <<>>
        /\ pc \notin {"correct", "integrate", "print_area", "plot", "done"}

\* C6: with a malformed row in the file, the run fails at that row during the
\* load: nothing is ever printed or plotted, no row after the malformed one
\* is read, the rows before it are the only ones loaded, and the step that
\* reaches the malformed row ends the run with an uncaught exception.
C6_MalformedInState ==
    (fileExists /\ FirstMalformed # 0) =>
        /\ stdout = <<>>
        /\ plotted = <<>>
        /\ pc \in {"open", "read", "failed"}
        /\ nread <= FirstMalformed
        /\ Len(x_vals) = (IF nread = FirstMalformed THEN nread - 1 ELSE nread)
        /\ nread = FirstMalformed => (pc = "failed" /\ error \in {"ValueError", "IndexError"})

C6_MalformedInStep ==
    (pc = "read" /\ nread + 1 = FirstMalformed) =>
        (pc' = "failed" /\ x_vals' = x_vals /\ y_vals' = y_vals)

C6_MalformedRowFailsFast ==
    /\ []C6_MalformedInState
    /\ [][C6_MalformedInStep]_vars

\* The run has failed on a malformed row that follows well-formed ones and is
\* followed by another row.
C6_Witness ==
    /\ pc = "failed"
    /\ error \in {"ValueError", "IndexError"}
    /\ Len(x_vals) >= 1
    /\ nread < Len(rows)

\* C7: after the load step no step changes x_vals or y_vals, and the plot
\* receives every row of the file, in file order, with its time in seconds
\* and its signal as read.
C7_SeriesFrozenInStep ==
    pc \notin {"open", "read"} => (x_vals' = x_vals /\ y_vals' = y_vals)

C7_PlotGetsFile ==
    plotted # <<>> =>
        /\ plotted[1].x = TimesOf(rows)
        /\ plotted[1].y = SignalsOf(rows)

C7_PlotIsFullOriginalSeries ==
    /\ [][C7_SeriesFrozenInStep]_vars
    /\ []C7_PlotGetsFile

\* The plot was made of a file with a sample outside the window and an
\* in-window signal that the correction changed.
C7_Witness ==
    /\ pc = "done"
    /\ Len(plotted[1].x) > Len(peak_x_vals)
    /\ Len(peak_x_vals) >= 1
    /\ baseline.v # 0

\* C8 as stated: filtering of the whole Series has finished before the
\* baseline is determined, nothing is printed before the integration has
\* completed, 'Baseline is' comes before 'Peak area:', and the plot follows
\* both lines.
C8_AsStated ==
    /\ pc = "window" => nread = Len(rows)
    /\ baseline # Inf => (LoopExhausted \/ PastWindowing)
    /\ stdout # <<>> => result # None
    /\ Len(stdout) >= 1 => stdout[1].label = "Baseline is"
    /\ Len(stdout) >= 2 => stdout[2].label = "Peak area:"
    /\ plotted # <<>> => Len(stdout) = 2

\* C8 amended: the load is complete before filtering starts; the baseline is
\* kept up to date while filtering; 'Baseline is' is printed once the filter
\* has gone over the whole Series, before the correction and the
\* integration, with the least in-window signal found; 'Peak area:' is
\* printed after the integration with its result and after 'Baseline is';
\* the plot follows both lines.
C8_SequentialOrder ==
    /\ (pc = "window" \/ PastWindowing) => (nread = Len(rows) /\ csvfile = "closed")
    /\ stdout # <<>> =>
          /\ i + 1 = Len(y_vals)
          /\ stdout[1] = [label |-> "Baseline is", value |-> baseline]
    /\ PastWindowing <=> stdout # <<>>
    /\ result # None => PastCorrection
    /\ Len(stdout) >= 2 <=> pc \in {"plot", "done"}
    /\ Len(stdout) >= 2 =>
          /\ result # None
          /\ stdout[2] = [label |-> "Peak area:", value |-> result]
    /\ Len(stdout) <= 2
    /\ plotted # <<>> <=> pc = "done"

\* 'Baseline is' is printed, over a Series of two or more samples, and the
\* integration has not happened yet.
C8_Witness ==
    /\ pc = "correct"
    /\ Len(stdout) = 1
    /\ Len(y_vals) >= 2
    /\ result = None

\* C9: the input file is open only during the read loop: it is closed in
\* every state after the load step, whether the loop ended or a row failed.
C9_FileOpenOnlyWhileReading ==
    /\ csvfile = "open" <=> pc = "read"
    /\ (pc \notin {"open", "read"} /\ fileExists) => csvfile = "closed"
    /\ pc = "failed" => csvfile # "open"

\* A row failed to parse after another had been read, and the file is closed.
C9_Witness ==
    /\ pc = "failed"
    /\ Len(x_vals) >= 1
    /\ csvfile = "closed"

NonDecreasing(ts) == \A k \in 1..(Len(ts) - 1) : ts[k] <= ts[k + 1]
AllEqual(ys) == \A k \in 1..Len(ys) : ys[k] = ys[1]
\* In-window times 300 s then 180 s.
DescendingRows ==
    <<<<Field(5, 1), Field(5, 1)>>, <<Field(3, 1), Field(10, 1)>>>>

\* C10: with a non-empty Peak Series whose times are non-decreasing the
\* printed area is >= 0, and it is 0 for a single sample or for equal
\* in-window signals; a well-formed file is never rejected, whatever the
\* order of its times, and the file with in-window times 300 s, 180 s gives
\* a negative area.
C10_AreaSign ==
    /\ (Len(stdout) >= 2 /\ InFile # <<>> /\ NonDecreasing(TimesOf(InFile))) =>
          /\ stdout[2].value.v >= 0
          /\ (Len(InFile) = 1 \/ AllEqual(SignalsOf(InFile))) => stdout[2].value.v = 0
    /\ (Len(stdout) >= 2 /\ InFile # <<>> /\ AllEqual(SignalsOf(InFile))) =>
          stdout[2].value.v = 0
    /\ Loaded => pc # "failed"
    /\ (rows = DescendingRows /\ Len(stdout) >= 2) => stdout[2].value.v < 0

\* An area was printed for two or more in-window samples in ascending order
\* of time, and it is positive.
C10_Witness ==
    /\ Len(stdout) >= 2
    /\ Len(InFile) >= 2
    /\ NonDecreasing(TimesOf(InFile))
    /\ stdout[2].value.v > 0

\* The descending file was accepted and its area printed.
C10_DescendingReached ==
    /\ rows = DescendingRows
    /\ pc = "done"
    /\ stdout[2].value.v < 0
====
